---- MODULE Spec2Model ----
(***************************************************************************)
(* Model of the Nexo client's repository-analysis cache                    *)
(* (client/src/services/cacheService.ts).                                  *)
(*                                                                         *)
(* Strings that the code inspects character by character (repository       *)
(* URLs) are sequences of one-character strings.  Opaque strings (user     *)
(* ids, payloads) are plain TLA+ strings.  Time is Date.now() in           *)
(* milliseconds.                                                           *)
(***************************************************************************)
EXTENDS Integers, Sequences, FiniteSets, TLC

VARIABLES
  blob,        \* localStorage item under CACHE_KEY
  now,         \* Date.now()
  ticks,       \* number of clock advances so far (bounds the model)
  fault,       \* condition of the storage medium
  last,        \* the most recent cache operation: arguments and outcome
  lastPut,     \* history: normalized key -> payload of the latest saveToCache
  nUrl,        \* a URL given to normalizeRepoUrl ...
  nVar,        \* ... a second URL, derived from the first ...
  nRel,        \* ... how it was derived ...
  nKeyU,       \* ... and the keys normalizeRepoUrl gave for the two
  nKeyV,
  tree,        \* a directory_structure handed to the tree converter
  treeOut,     \* the latest call on it: operation and outcome
  pageRepoUrl, \* the analysis page: its "repo" search parameter (repoUrl)
  user,        \* ... the signed-in user's id, or null
  analysisState,  \* ... what the page shows
  effectPending,  \* ... whether the load effect is due to run
  mounted,     \* ... whether the page's effects have run once
  inflight,    \* ... analysis requests awaiting their response
  nextId,      \* ... number of requests sent so far
  pageLast,    \* history: the latest step of the load effect
  fresher,     \* history: per key, the newest request answered so far
  shownFor,    \* history: the URL analysisState.data was obtained for
  isSaving,    \* ... the page's isSaving state
  saveTimers,  \* ... pending setTimeout(handleSaveRepository) calls
  savesRunning,  \* ... saveRepository calls awaiting their response
  tabPc,       \* browser tabs: where each tab is in its saveToCache
  tabJob,      \* ... the arguments of that call
  tabHeld,     \* ... the store it read, with the stored text it came from
  tabDone,     \* history: keys whose saveToCache the tab has completed
  overlapped,  \* history: a tab wrote after another wrote since its read
  nexo_token,  \* sign-in: localStorage item under TOKEN_KEY
  nexo_user,   \* ... localStorage item under USER_KEY
  ctxToken,    \* ... the AuthProvider's token state
  ctxUser,     \* ... the AuthProvider's user state
  authCall,    \* ... the auth call awaiting a response, if any
  authLast     \* history: how the latest auth call ended

vars ==
  <<blob, now, ticks, fault, last, lastPut, nUrl, nVar, nRel, nKeyU, nKeyV,
    tree, treeOut, pageRepoUrl, user, analysisState, effectPending, mounted,
    inflight, nextId, pageLast, fresher, shownFor, isSaving, saveTimers,
    savesRunning,
    tabPc, tabJob, tabHeld, tabDone, overlapped,
    nexo_token, nexo_user, ctxToken, ctxUser, authCall, authLast>>

cacheVars == <<blob, now, ticks, fault, last, lastPut>>
normVars == <<nUrl, nVar, nRel, nKeyU, nKeyV>>
treeVars == <<tree, treeOut>>

pageVars ==
  <<pageRepoUrl, user, analysisState, effectPending, mounted, inflight, nextId,
    pageLast, fresher, shownFor, isSaving, saveTimers, savesRunning>>
tabVars == <<tabPc, tabJob, tabHeld, tabDone, overlapped>>
authVars == <<nexo_token, nexo_user, ctxToken, ctxUser, authCall, authLast>>

nonCacheVars == <<normVars, treeVars, pageVars, tabVars, authVars>>
nonNormVars == <<cacheVars, treeVars, pageVars, tabVars, authVars>>
nonTreeVars == <<cacheVars, normVars, pageVars, tabVars, authVars>>

----------------------------------------------------------------------------
(* Bounds *)

MaxTicks == 2
MaxCoreLen == 3

----------------------------------------------------------------------------
(* Program constants *)

CACHE_EXPIRATION == 60 * 60 * 1000

NULL == "null"
ANONYMOUS == "anonymous"

Prefix ==
  <<"h","t","t","p","s",":","/","/","g","i","t","h","u","b",".","c","o","m","/">>

PrefixUpper ==
  <<"H","T","T","P","S",":","/","/","G","I","T","H","U","B",".","C","O","M","/">>

----------------------------------------------------------------------------
(* String.prototype.toLowerCase, on the alphabet of the model *)

(* upper-case letter -> lower-case letter *)
LowerOf ==
  [A |-> "a", B |-> "b", C |-> "c", D |-> "d", F |-> "f", G |-> "g",
   H |-> "h", I |-> "i", M |-> "m", O |-> "o", P |-> "p", R |-> "r",
   S |-> "s", T |-> "t", U |-> "u"]

UpperOf ==
  [a |-> "A", b |-> "B", c |-> "C", d |-> "D", f |-> "F", g |-> "G",
   h |-> "H", i |-> "I", m |-> "M", o |-> "O", p |-> "P", r |-> "R",
   s |-> "S", t |-> "T", u |-> "U"]

LowerChar(c) == IF c \in DOMAIN LowerOf THEN LowerOf[c] ELSE c

UpperChar(c) == IF c \in DOMAIN UpperOf THEN UpperOf[c] ELSE c

toLowerCase(s) == [i \in 1..Len(s) |-> LowerChar(s[i])]

toUpperCase(s) == [i \in 1..Len(s) |-> UpperChar(s[i])]

(* s.replace(/\/$/, ""): drops one "/" at the very end of the string *)
(* a strip that drops the last character whatever it is *)
StripTrailingSlash_AnyLastChar(s) ==
  IF Len(s) > 0 THEN SubSeq(s, 1, Len(s) - 1) ELSE s

StripTrailingSlash(s) ==
  IF Len(s) > 0 /\ s[Len(s)] = "/" THEN SubSeq(s, 1, Len(s) - 1) ELSE s

(* positions at which pat occurs in s *)
Occurrences(s, pat) ==
  {i \in 1..(Len(s) - Len(pat) + 1) : SubSeq(s, i, i + Len(pat) - 1) = pat}

(* s.replace(pat, "") with a string pattern: removes the first occurrence *)
ReplaceFirst(s, pat) ==
  LET occ == Occurrences(s, pat) IN
  IF occ = {} THEN s
  ELSE LET i == CHOOSE j \in occ : \A k \in occ : j <= k
       IN SubSeq(s, 1, i - 1) \o SubSeq(s, i + Len(pat), Len(s))

(* normalizeRepoUrl without the toLowerCase() call *)
normalizeRepoUrl_NoLowerCase(url) ==
  ReplaceFirst(StripTrailingSlash(url), Prefix)

normalizeRepoUrl(url) ==
  ReplaceFirst(StripTrailingSlash(toLowerCase(url)), Prefix)

----------------------------------------------------------------------------
(* Inputs of the cache operations *)

a_b == <<"a","/","b">>
c_d == <<"c","/","d">>

(* Repository URLs passed to the cache: two repositories, each in the     *)
(* full-URL and in the owner/repo form, with case and trailing-slash      *)
(* variants.                                                              *)
Urls ==
  { PrefixUpper \o <<"A","/","b","/">>, a_b, Prefix \o c_d }

(* user?._id || null at the call sites: a backend-assigned id, or null *)
UserIds == {NULL, "u1", "u2"}

(* AnalyzeResponse payloads: opaque to the cache *)
Payloads == {"D1", "D2"}

(* clock advances between operations, in ms *)
TickSteps == {1, CACHE_EXPIRATION - 1}

MISS == "miss"
VOID == "void"

----------------------------------------------------------------------------
(* A CacheStore in memory: a JavaScript object, i.e. a list of             *)
(* <key, CacheEntry> properties in insertion order, keys unique.           *)

CacheEntry(data, timestamp, userId) ==
  [data |-> data, timestamp |-> timestamp, userId |-> userId]

Keys(store) == {store[i].key : i \in 1..Len(store)}

HasKey(store, k) == k \in Keys(store)

(* store[k] for a present key *)
Lookup(store, k) ==
  store[CHOOSE i \in 1..Len(store) : store[i].key = k].value

(* store[k] = v *)
Assign(store, k, v) ==
  IF HasKey(store, k)
  THEN [i \in 1..Len(store) |->
          IF store[i].key = k THEN [key |-> k, value |-> v] ELSE store[i]]
  ELSE Append(store, [key |-> k, value |-> v])

(* delete store[k] *)
Delete(store, k) == SelectSeq(store, LAMBDA p : p.key # k)

(* JSON.stringify(store): the properties in order, each flattened to its   *)
(* key and the three fields of its entry.                                  *)
RECURSIVE JSONstringify(_)
JSONstringify(store) ==
  IF store = <<>> THEN <<>>
  ELSE <<Head(store).key, Head(store).value.data,
         Head(store).value.timestamp, Head(store).value.userId>>
       \o JSONstringify(Tail(store))

(* JSON.parse(text) of a text JSON.stringify produced *)
JSONparse(text) ==
  [i \in 1..(Len(text) \div 4) |->
     [key |-> text[4 * i - 3],
      value |-> CacheEntry(text[4 * i - 2], text[4 * i - 1], text[4 * i])]]

----------------------------------------------------------------------------
(* localStorage.  blob.kind is "absent" (getItem returns null), "json" (a  *)
(* serialized CacheStore, in blob.text), "garbage" (a text JSON.parse      *)
(* rejects) or "nulljson" (the text "null", which parses to null).         *)
(* fault is "none", "quota" (setItem throws) or "unavailable" (every       *)
(* access to localStorage throws).                                         *)

Absent == [kind |-> "absent", text |-> <<>>]
Json(text) == [kind |-> "json", text |-> text]
Garbage == [kind |-> "garbage", text |-> <<>>]
NullJson == [kind |-> "nulljson", text |-> <<>>]

Faults == {"none", "quota", "unavailable"}

(* getCacheStore(): [isNull, obj]; every exception is caught and gives {} *)
(* getCacheStore that never finds what was stored *)
getCacheStore_AlwaysEmpty(b, f) == [isNull |-> FALSE, obj |-> <<>>]

getCacheStore(b, f) ==
  IF f = "unavailable" THEN [isNull |-> FALSE, obj |-> <<>>]
  ELSE IF b.kind = "absent" THEN [isNull |-> FALSE, obj |-> <<>>]
  ELSE IF b.kind = "garbage" THEN [isNull |-> FALSE, obj |-> <<>>]
  ELSE IF b.kind = "nulljson" THEN [isNull |-> TRUE, obj |-> <<>>]
  ELSE [isNull |-> FALSE, obj |-> JSONparse(b.text)]

(* saveCacheStore(store): the blob afterwards; a failing setItem is caught *)
saveCacheStore(b, f, store) ==
  IF f \in {"quota", "unavailable"} THEN b ELSE Json(JSONstringify(store))

(* isCacheValid with <= for < *)
(* isCacheValid with a window that depends on the entry: twice as long for *)
(* the entries of signed-out visitors                                      *)
isCacheValid_LongerForAnonymous(entry, t) ==
  t - entry.timestamp <
    (IF entry.userId = ANONYMOUS THEN 2 * CACHE_EXPIRATION ELSE CACHE_EXPIRATION)

isCacheValid_Inclusive(entry, t) == t - entry.timestamp <= CACHE_EXPIRATION

(* isCacheValid(entry) at time t *)
isCacheValid(entry, t) == t - entry.timestamp < CACHE_EXPIRATION

(* userId || "anonymous" *)
OrAnonymous(userId) == IF userId = NULL \/ userId = "" THEN ANONYMOUS ELSE userId

----------------------------------------------------------------------------
(* Outcome of one cache operation: the blob afterwards, what the caller    *)
(* got back, whether an exception reached the caller, and whether          *)
(* saveCacheStore was called.                                              *)

Outcome(b, ret, removed, raised, saved) ==
  [blob |-> b, ret |-> ret, removed |-> removed, raised |-> raised,
   saved |-> saved, total |-> 0, valid |-> 0, expired |-> 0]

(* a TypeError (or a storage exception outside any try) leaves the blob *)
Raise(b) == Outcome(b, VOID, 0, TRUE, FALSE)

(* getFromCache that finds nothing *)
getFromCache_AlwaysMiss(b, f, t, repoUrl, userId) ==
  Outcome(b, MISS, 0, FALSE, FALSE)

(* getFromCache without the isCacheValid check *)
getFromCache_SkipsExpiry(b, f, t, repoUrl, userId) ==
  LET normalizedUrl == normalizeRepoUrl(repoUrl)
      store == getCacheStore(b, f)
  IN IF store.isNull THEN Raise(b)
     ELSE IF ~HasKey(store.obj, normalizedUrl)
       THEN Outcome(b, MISS, 0, FALSE, FALSE)
     ELSE LET entry == Lookup(store.obj, normalizedUrl) IN
       IF entry.userId # OrAnonymous(userId)
         THEN Outcome(b, MISS, 0, FALSE, FALSE)
       ELSE Outcome(b, entry.data, 0, FALSE, FALSE)

(* getFromCache without the userId comparison *)
getFromCache_SkipsOwner(b, f, t, repoUrl, userId) ==
  LET normalizedUrl == normalizeRepoUrl(repoUrl)
      store == getCacheStore(b, f)
  IN IF store.isNull THEN Raise(b)
     ELSE IF ~HasKey(store.obj, normalizedUrl)
       THEN Outcome(b, MISS, 0, FALSE, FALSE)
     ELSE LET entry == Lookup(store.obj, normalizedUrl) IN
       IF ~isCacheValid(entry, t)
         THEN Outcome(saveCacheStore(b, f, Delete(store.obj, normalizedUrl)),
                      MISS, 0, FALSE, TRUE)
       ELSE Outcome(b, entry.data, 0, FALSE, FALSE)

(* getFromCache that restarts the lifetime of the entry it returns *)
getFromCache_RefreshesOnHit(b, f, t, repoUrl, userId) ==
  LET normalizedUrl == normalizeRepoUrl(repoUrl)
      store == getCacheStore(b, f)
  IN IF store.isNull THEN Raise(b)
     ELSE IF ~HasKey(store.obj, normalizedUrl)
       THEN Outcome(b, MISS, 0, FALSE, FALSE)
     ELSE LET entry == Lookup(store.obj, normalizedUrl) IN
       IF entry.userId # OrAnonymous(userId)
         THEN Outcome(b, MISS, 0, FALSE, FALSE)
       ELSE IF ~isCacheValid(entry, t)
         THEN Outcome(saveCacheStore(b, f, Delete(store.obj, normalizedUrl)),
                      MISS, 0, FALSE, TRUE)
       ELSE Outcome(saveCacheStore(b, f, Assign(store.obj, normalizedUrl,
                      CacheEntry(entry.data, t, entry.userId))),
                    entry.data, 0, FALSE, TRUE)

(* getFromCache that lets a signed-out visitor read every user's entries *)
getFromCache_AnonymousReadsAll(b, f, t, repoUrl, userId) ==
  LET normalizedUrl == normalizeRepoUrl(repoUrl)
      store == getCacheStore(b, f)
  IN IF store.isNull THEN Raise(b)
     ELSE IF ~HasKey(store.obj, normalizedUrl)
       THEN Outcome(b, MISS, 0, FALSE, FALSE)
     ELSE LET entry == Lookup(store.obj, normalizedUrl) IN
       IF userId # NULL /\ entry.userId # OrAnonymous(userId)
         THEN Outcome(b, MISS, 0, FALSE, FALSE)
       ELSE IF ~isCacheValid(entry, t)
         THEN Outcome(saveCacheStore(b, f, Delete(store.obj, normalizedUrl)),
                      MISS, 0, FALSE, TRUE)
       ELSE Outcome(b, entry.data, 0, FALSE, FALSE)

(* getFromCache that reports an expired entry as a miss but keeps it *)
getFromCache_NoEvict(b, f, t, repoUrl, userId) ==
  LET normalizedUrl == normalizeRepoUrl(repoUrl)
      store == getCacheStore(b, f)
  IN IF store.isNull THEN Raise(b)
     ELSE IF ~HasKey(store.obj, normalizedUrl)
       THEN Outcome(b, MISS, 0, FALSE, FALSE)
     ELSE LET entry == Lookup(store.obj, normalizedUrl) IN
       IF entry.userId # OrAnonymous(userId)
         THEN Outcome(b, MISS, 0, FALSE, FALSE)
       ELSE IF ~isCacheValid(entry, t)
         THEN Outcome(b, MISS, 0, FALSE, FALSE)
       ELSE Outcome(b, entry.data, 0, FALSE, FALSE)

getFromCache(b, f, t, repoUrl, userId) ==
  LET normalizedUrl == normalizeRepoUrl(repoUrl)
      store == getCacheStore(b, f)
  IN IF store.isNull THEN Raise(b)
     ELSE IF ~HasKey(store.obj, normalizedUrl)
       THEN Outcome(b, MISS, 0, FALSE, FALSE)
     ELSE LET entry == Lookup(store.obj, normalizedUrl) IN
       IF entry.userId # OrAnonymous(userId)
         THEN Outcome(b, MISS, 0, FALSE, FALSE)
       ELSE IF ~isCacheValid(entry, t)
         THEN Outcome(saveCacheStore(b, f, Delete(store.obj, normalizedUrl)),
                      MISS, 0, FALSE, TRUE)
       ELSE Outcome(b, entry.data, 0, FALSE, FALSE)

(* saveToCache that uses repoUrl itself as the key *)
saveToCache_RawKey(b, f, t, repoUrl, data, userId) ==
  LET store == getCacheStore(b, f)
  IN IF store.isNull THEN Raise(b)
     ELSE Outcome(saveCacheStore(b, f,
                    Assign(store.obj, repoUrl,
                           CacheEntry(data, t, OrAnonymous(userId)))),
                  VOID, 0, FALSE, TRUE)

(* saveToCache that merges into an existing entry, keeping its timestamp *)
(* saveToCache that writes a store holding the new entry alone *)
saveToCache_DropsOthers(b, f, t, repoUrl, data, userId) ==
  LET normalizedUrl == normalizeRepoUrl(repoUrl)
      store == getCacheStore(b, f)
  IN IF store.isNull THEN Raise(b)
     ELSE Outcome(saveCacheStore(b, f,
                    Assign(<<>>, normalizedUrl,
                           CacheEntry(data, t, OrAnonymous(userId)))),
                  VOID, 0, FALSE, TRUE)

saveToCache_KeepsTimestamp(b, f, t, repoUrl, data, userId) ==
  LET normalizedUrl == normalizeRepoUrl(repoUrl)
      store == getCacheStore(b, f)
  IN IF store.isNull THEN Raise(b)
     ELSE Outcome(saveCacheStore(b, f,
                    Assign(store.obj, normalizedUrl,
                           CacheEntry(data,
                                      IF HasKey(store.obj, normalizedUrl)
                                      THEN Lookup(store.obj, normalizedUrl).timestamp
                                      ELSE t,
                                      OrAnonymous(userId)))),
                  VOID, 0, FALSE, TRUE)

saveToCache(b, f, t, repoUrl, data, userId) ==
  LET normalizedUrl == normalizeRepoUrl(repoUrl)
      store == getCacheStore(b, f)
  IN IF store.isNull THEN Raise(b)
     ELSE Outcome(saveCacheStore(b, f,
                    Assign(store.obj, normalizedUrl,
                           CacheEntry(data, t, OrAnonymous(userId)))),
                  VOID, 0, FALSE, TRUE)

(* removeFromCache that uses repoUrl itself as the key *)
removeFromCache_RawKey(b, f, repoUrl) ==
  LET store == getCacheStore(b, f)
  IN IF store.isNull THEN Raise(b)
     ELSE IF HasKey(store.obj, repoUrl)
       THEN Outcome(saveCacheStore(b, f, Delete(store.obj, repoUrl)),
                    VOID, 0, FALSE, TRUE)
     ELSE Outcome(b, VOID, 0, FALSE, FALSE)

removeFromCache(b, f, repoUrl) ==
  LET normalizedUrl == normalizeRepoUrl(repoUrl)
      store == getCacheStore(b, f)
  IN IF store.isNull THEN Raise(b)
     ELSE IF HasKey(store.obj, normalizedUrl)
       THEN Outcome(saveCacheStore(b, f, Delete(store.obj, normalizedUrl)),
                    VOID, 0, FALSE, TRUE)
     ELSE Outcome(b, VOID, 0, FALSE, FALSE)

(* clearCache that removes the item of another key *)
clearCache_KeepsItem(b, f) ==
  IF f = "unavailable" THEN Raise(b) ELSE Outcome(b, VOID, 0, FALSE, FALSE)

(* localStorage.removeItem is called outside any try *)
clearCache(b, f) ==
  IF f = "unavailable" THEN Raise(b) ELSE Outcome(Absent, VOID, 0, FALSE, FALSE)

(* cleanExpiredCache that saves whether or not it removed anything *)
cleanExpiredCache_AlwaysSaves(b, f, t) ==
  LET store == getCacheStore(b, f) IN
  IF store.isNull THEN Raise(b)
  ELSE LET kept == SelectSeq(store.obj, LAMBDA p : isCacheValid(p.value, t))
           removed == Len(store.obj) - Len(kept)
       IN Outcome(saveCacheStore(b, f, kept), VOID, removed, FALSE, TRUE)

cleanExpiredCache(b, f, t) ==
  LET store == getCacheStore(b, f) IN
  IF store.isNull THEN Raise(b)
  ELSE LET kept == SelectSeq(store.obj, LAMBDA p : isCacheValid(p.value, t))
           removed == Len(store.obj) - Len(kept)
       IN IF removed > 0
          THEN Outcome(saveCacheStore(b, f, kept), VOID, removed, FALSE, TRUE)
          ELSE Outcome(b, VOID, removed, FALSE, FALSE)

(* getCacheStats that sweeps the expired entries it counts *)
getCacheStats_Evicts(b, f, t) ==
  LET store == getCacheStore(b, f) IN
  IF store.isNull THEN Raise(b)
  ELSE LET kept == SelectSeq(store.obj, LAMBDA p : isCacheValid(p.value, t))
       IN [Outcome(saveCacheStore(b, f, kept), VOID, 0, FALSE, FALSE) EXCEPT
             !.total = Len(store.obj),
             !.valid = Len(kept),
             !.expired = Len(store.obj) - Len(kept)]

getCacheStats(b, f, t) ==
  LET store == getCacheStore(b, f) IN
  IF store.isNull THEN Raise(b)
  ELSE LET validEntries ==
             Len(SelectSeq(store.obj, LAMBDA p : isCacheValid(p.value, t)))
       IN [Outcome(b, VOID, 0, FALSE, FALSE) EXCEPT
             !.total = Len(store.obj),
             !.valid = validEntries,
             !.expired = Len(store.obj) - validEntries]

(* clearUserCache that treats "anonymous" entries as everybody's *)
clearUserCache_AlsoAnonymous(b, f, userId) ==
  LET store == getCacheStore(b, f) IN
  IF store.isNull THEN Raise(b)
  ELSE LET kept == SelectSeq(store.obj,
                     LAMBDA p : p.value.userId \notin {userId, ANONYMOUS})
           removed == Len(store.obj) - Len(kept)
       IN IF removed > 0
          THEN Outcome(saveCacheStore(b, f, kept), VOID, removed, FALSE, TRUE)
          ELSE Outcome(b, VOID, removed, FALSE, FALSE)

clearUserCache(b, f, userId) ==
  LET store == getCacheStore(b, f) IN
  IF store.isNull THEN Raise(b)
  ELSE LET kept == SelectSeq(store.obj, LAMBDA p : p.value.userId # userId)
           removed == Len(store.obj) - Len(kept)
       IN IF removed > 0
          THEN Outcome(saveCacheStore(b, f, kept), VOID, removed, FALSE, TRUE)
          ELSE Outcome(b, VOID, removed, FALSE, FALSE)

----------------------------------------------------------------------------
(* The state machine of the cache *)

NormKeys == {normalizeRepoUrl(u) : u \in Urls}

NONE == "none"

Call(op, url, userId, data, out) ==
  [op |-> op, url |-> url, userId |-> userId, data |-> data,
   ret |-> out.ret, removed |-> out.removed, raised |-> out.raised,
   saved |-> out.saved, total |-> out.total, valid |-> out.valid,
   expired |-> out.expired]

NormInit ==
  /\ nUrl = <<>>
  /\ nVar = <<>>
  /\ nRel = "init"
  /\ nKeyU = <<>>
  /\ nKeyV = <<>>

CacheInit ==
  /\ blob = Absent
  /\ now = 0
  /\ ticks = 0
  /\ fault = "none"
  /\ last = Call("init", <<>>, NULL, NONE, Outcome(Absent, VOID, 0, FALSE, FALSE))
  /\ lastPut = [k \in NormKeys |-> NONE]

(* no directory_structure has been received *)
TreeIdle ==
  /\ tree = <<>>
  /\ treeOut = [op |-> "init", raised |-> FALSE, items |-> <<>>, count |-> 0]

Tabs == {1, 2}

(* searchParams.get("repo") || "https://github.com/usuario/awesome-project" *)
DefaultRepoUrl ==
  Prefix \o <<"u","s","u","a","r","i","o","/",
              "a","w","e","s","o","m","e","-","p","r","o","j","e","c","t">>

(* values of the "repo" search parameter: owner/name, and full URLs *)
PageUrls == {a_b, Prefix \o <<"A", "/", "b", "/">>, Prefix \o c_d}

startsWith(str, prefix) ==
  Len(str) >= Len(prefix) /\ SubSeq(str, 1, Len(prefix)) = prefix

fullRepoUrl(url) ==
  IF startsWith(url, <<"h", "t", "t", "p">>) THEN url ELSE Prefix \o url

PageKeys == {normalizeRepoUrl(fullRepoUrl(u)) : u \in PageUrls}

(* the analysis page is not open *)
PageIdle ==
  /\ pageRepoUrl = <<>>
  /\ user = NULL
  /\ analysisState = [isLoading |-> TRUE, data |-> NONE, error |-> NONE]
  /\ effectPending = FALSE
  /\ mounted = FALSE
  /\ inflight = {}
  /\ nextId = 0
  /\ pageLast = [op |-> "init", id |-> 0, url |-> <<>>, userId |-> NULL,
                 result |-> NONE]
  /\ fresher = [k \in PageKeys |-> [id |-> 0, data |-> NONE]]
  /\ shownFor = <<>>
  /\ isSaving = FALSE
  /\ saveTimers = 0
  /\ savesRunning = 0

(* no tab is inside a saveToCache *)
TabsIdle ==
  /\ tabPc = [t \in Tabs |-> "idle"]
  /\ tabJob = [t \in Tabs |-> NONE]
  /\ tabHeld = [t \in Tabs |-> NONE]
  /\ tabDone = [t \in Tabs |-> {}]
  /\ overlapped = FALSE

(* nobody has signed in and no auth call is under way *)
AuthIdle ==
  /\ nexo_token = NULL
  /\ nexo_user = NULL
  /\ ctxToken = NULL
  /\ ctxUser = NULL
  /\ authCall = [op |-> "none", from |-> "none", token |-> NULL, account |-> NULL]
  /\ authLast = "none"

Init == CacheInit /\ NormInit /\ TreeIdle /\ PageIdle /\ TabsIdle /\ AuthIdle

Get(url, userId) ==
  \E out \in {getFromCache(blob, fault, now, url, userId)} :
  /\ blob' = out.blob
  /\ last' = Call("get", url, userId, NONE, out)
  /\ UNCHANGED <<now, ticks, fault, lastPut, nonCacheVars>>

Put(url, data, userId) ==
  \E out \in {saveToCache(blob, fault, now, url, data, userId)} :
  /\ blob' = out.blob
  /\ last' = Call("put", url, userId, data, out)
  /\ lastPut' = [lastPut EXCEPT ![normalizeRepoUrl(url)] = data]
  /\ UNCHANGED <<now, ticks, fault, nonCacheVars>>

Remove(url) ==
  \E out \in {removeFromCache(blob, fault, url)} :
  /\ blob' = out.blob
  /\ last' = Call("remove", url, NULL, NONE, out)
  /\ UNCHANGED <<now, ticks, fault, lastPut, nonCacheVars>>

Clear ==
  \E out \in {clearCache(blob, fault)} :
  /\ blob' = out.blob
  /\ last' = Call("clear", <<>>, NULL, NONE, out)
  /\ UNCHANGED <<now, ticks, fault, lastPut, nonCacheVars>>

SweepExpired ==
  \E out \in {cleanExpiredCache(blob, fault, now)} :
  /\ blob' = out.blob
  /\ last' = Call("sweepExpired", <<>>, NULL, NONE, out)
  /\ UNCHANGED <<now, ticks, fault, lastPut, nonCacheVars>>

Stats ==
  \E out \in {getCacheStats(blob, fault, now)} :
  /\ blob' = out.blob
  /\ last' = Call("stats", <<>>, NULL, NONE, out)
  /\ UNCHANGED <<now, ticks, fault, lastPut, nonCacheVars>>

ClearForUser(userId) ==
  \E out \in {clearUserCache(blob, fault, userId)} :
  /\ blob' = out.blob
  /\ last' = Call("clearForUser", <<>>, userId, NONE, out)
  /\ UNCHANGED <<now, ticks, fault, lastPut, nonCacheVars>>

(* Date.now() advances between operations *)
Tick(d) ==
  /\ ticks < MaxTicks
  /\ now' = now + d
  /\ ticks' = ticks + 1
  /\ UNCHANGED <<blob, fault, last, lastPut, nonCacheVars>>

CacheOps(urls, userIds, payloads) ==
  \/ \E url \in urls, userId \in userIds : Get(url, userId)
  \/ \E url \in urls, data \in payloads, userId \in userIds :
       Put(url, data, userId)
  \/ \E url \in urls : Remove(url)
  \/ Clear
  \/ SweepExpired
  \/ Stats
  \/ \E userId \in (userIds \ {NULL}) \cup {ANONYMOUS} : ClearForUser(userId)

Next ==
  \/ CacheOps(Urls, UserIds, Payloads)
  \/ \E d \in TickSteps : Tick(d)

Spec == Init /\ [][Next]_vars

(* The storage medium changes condition, and the item under CACHE_KEY can  *)
(* be rewritten from outside the cache service.                            *)
SetFault(f) ==
  /\ fault' = f
  /\ UNCHANGED <<blob, now, ticks, last, lastPut, nonCacheVars>>

Corrupt(b) ==
  /\ blob' = b
  /\ UNCHANGED <<now, ticks, fault, last, lastPut, nonCacheVars>>

(* The cache on a failing medium, on fewer inputs *)
FaultUrls == {a_b, Prefix \o c_d}
FaultUserIds == {NULL, "u1"}
FaultPayloads == {"D1"}

NextFault ==
  \/ CacheOps(FaultUrls, FaultUserIds, FaultPayloads)
  \/ Tick(CACHE_EXPIRATION)
  \/ \E f \in Faults : SetFault(f)
  \/ \E b \in {Garbage, NullJson} : Corrupt(b)

SpecFault == Init /\ [][NextFault]_vars

----------------------------------------------------------------------------
(* normalizeRepoUrl as a function of its input: pairs of URLs that differ  *)
(* by one trailing slash, by the https://github.com/ prefix, or by letter  *)
(* case.                                                                   *)

CoreChars == {"a", "B", "/"}

RECURSIVE SeqsUpTo(_, _)
SeqsUpTo(S, n) ==
  IF n = 0 THEN {<<>>}
  ELSE LET shorter == SeqsUpTo(S, n - 1)
       IN shorter \cup {Append(s, c) : s \in shorter, c \in S}

Cores == SeqsUpTo(CoreChars, MaxCoreLen)

(* owner/repo forms and full-URL forms *)
NormInputs ==
  Cores \cup {Prefix \o c : c \in Cores} \cup {PrefixUpper \o c : c \in Cores}

FlipCase(s, i) ==
  [s EXCEPT ![i] = IF LowerChar(s[i]) = s[i] THEN UpperChar(s[i])
                   ELSE LowerChar(s[i])]

Derive(rel, v) ==
  /\ nRel = "given"
  /\ nVar' = v
  /\ nRel' = rel
  /\ nKeyU' = normalizeRepoUrl(nUrl)
  /\ nKeyV' = normalizeRepoUrl(v)
  /\ UNCHANGED <<nUrl, nonNormVars>>

AddTrailingSlash == Derive("slash", nUrl \o <<"/">>)

AddPrefix == Derive("prefix", Prefix \o nUrl)

ChangeCase(i) == Derive("case", FlipCase(nUrl, i))

UpperCase == Derive("case", toUpperCase(nUrl))

(* the key of the URL is itself used as a URL *)
UseKeyAsUrl == Derive("key", normalizeRepoUrl(nUrl))

NormalizeInit ==
  /\ CacheInit
  /\ TreeIdle
  /\ PageIdle
  /\ TabsIdle
  /\ AuthIdle
  /\ nUrl \in NormInputs
  /\ nVar = nUrl
  /\ nRel = "given"
  /\ nKeyU = <<>>
  /\ nKeyV = <<>>

NormalizeNext ==
  \/ AddTrailingSlash
  \/ AddPrefix
  \/ \E i \in 1..Len(nUrl) : ChangeCase(i)
  \/ UpperCase
  \/ UseKeyAsUrl

SpecNormalize == NormalizeInit /\ [][NormalizeNext]_vars

----------------------------------------------------------------------------
(* C5 (as stated): two URLs that differ only by the https://github.com/    *)
(* prefix, by a trailing slash or by letter case get the same cache key.   *)
C5_AnyVariantSameKey ==
  nRel \in {"slash", "prefix", "case"} => nKeyU = nKeyV

ContainsPrefix(url) == Occurrences(toLowerCase(url), Prefix) # {}

EndsWithSlash(url) == Len(url) > 0 /\ url[Len(url)] = "/"

(* C5 (amended): the keys are equal when the URLs differ by letter case,   *)
(* by one trailing slash added to a URL that does not already end in a     *)
(* slash, or by the prefix put in front of a non-empty URL that does not   *)
(* itself contain the prefix; e.g. https://github.com/Foo/Bar/ and foo/bar *)
(* both give foo/bar.                                                      *)
C5_KeyNormalization ==
  /\ nRel = "case" => nKeyU = nKeyV
  /\ (nRel = "slash" /\ ~EndsWithSlash(nUrl)) => nKeyU = nKeyV
  /\ (nRel = "prefix" /\ nUrl # <<>> /\ ~ContainsPrefix(nUrl)) => nKeyU = nKeyV
  /\ normalizeRepoUrl(Prefix \o <<"F","o","o","/","B","a","r","/">>)
       = <<"f","o","o","/","b","a","r">>
  /\ normalizeRepoUrl(<<"f","o","o","/","b","a","r">>)
       = <<"f","o","o","/","b","a","r">>

(* a full URL in capitals with a trailing slash against its owner/repo form *)
C5_Witness ==
  /\ nRel = "prefix"
  /\ nUrl = <<"a", "/", "B">>
  /\ nKeyU = <<"a", "/", "b">>
  /\ nKeyV = nKeyU

----------------------------------------------------------------------------
(* Vocabulary of the cache claims *)

(* the CacheStore persisted in blob b *)
StoreOf(b) == IF b.kind = "json" THEN JSONparse(b.text) ELSE <<>>

(* userId or "anonymous" *)
Effective(userId) == IF userId = NULL THEN "anonymous" ELSE userId

Age(entry, t) == t - entry.timestamp

(* a step of the cache service (the clock stands still during one) whose   *)
(* operation is op                                                         *)
Did(op) == now' = now /\ last'.op = op

(* ... and the operation before it was prevOp, with nothing in between     *)
(* but the passing of time                                                 *)
DidAfter(prevOp, op) == Did(op) /\ last.op = prevOp

(* C1: get returns D iff the store holds at the normalized key an entry of *)
(* (userId or "anonymous") younger than the window, and D is then the      *)
(* data of the most recent put on that key; otherwise get returns miss.    *)
C1_GetContract ==
  [][Did("get") =>
       LET k == normalizeRepoUrl(last'.url)
           st == StoreOf(blob)
           live == /\ HasKey(st, k)
                   /\ Lookup(st, k).userId = Effective(last'.userId)
                   /\ Age(Lookup(st, k), now) < 3600000
       IN /\ live => /\ last'.ret = Lookup(st, k).data
                     /\ last'.ret = lastPut[k]
                     /\ last'.ret \in Payloads
          /\ ~live => last'.ret = MISS
          /\ ~last'.raised]_vars

(* a hit through the full-URL form, some time after a put of D2 *)
C1_Witness ==
  /\ last.op = "get"
  /\ last.ret = "D2"
  /\ last.userId = "u1"
  /\ Len(last.url) > Len(Prefix)
  /\ lastPut[normalizeRepoUrl(last.url)] = "D2"
  /\ now = CACHE_EXPIRATION - 1
  /\ Lookup(StoreOf(blob), normalizeRepoUrl(last.url)).timestamp = 0

(* C2: put(url, D, u) followed by get(url, u), with no operation between   *)
(* them and less than the window elapsed, returns D.                       *)
C2_RoundTrip ==
  [][(/\ DidAfter("put", "get")
      /\ last'.url = last.url
      /\ last'.userId = last.userId)
     => LET k == normalizeRepoUrl(last.url)
            st == StoreOf(blob)
        IN /\ HasKey(st, k)
           /\ Age(Lookup(st, k), now) < CACHE_EXPIRATION => last'.ret = last.data]_vars

(* a get by the anonymous visitor that returned the payload at age 1 ms *)
C2_Witness ==
  /\ last.op = "get"
  /\ last.userId = NULL
  /\ last.ret = "D1"
  /\ now = 1
  /\ HasKey(StoreOf(blob), normalizeRepoUrl(last.url))
  /\ Lookup(StoreOf(blob), normalizeRepoUrl(last.url)) =
       [data |-> "D1", timestamp |-> 0, userId |-> "anonymous"]

(* C3: put(url, D, u1) followed by get(url, u2) with u2 # u1 is a miss,    *)
(* and no get ever returns an entry stored under another user id.          *)
C3_Isolation ==
  [][/\ (/\ DidAfter("put", "get")
         /\ last'.url = last.url
         /\ last'.userId # last.userId) => last'.ret = MISS
     /\ (/\ Did("get")
         /\ HasKey(StoreOf(blob), normalizeRepoUrl(last'.url))
         /\ Lookup(StoreOf(blob), normalizeRepoUrl(last'.url)).userId
              # Effective(last'.userId)) => last'.ret = MISS]_vars

(* u2 asks for a key that holds a fresh entry of u1, and misses *)
C3_Witness ==
  /\ last.op = "get"
  /\ last.userId = "u2"
  /\ last.ret = MISS
  /\ HasKey(StoreOf(blob), normalizeRepoUrl(last.url))
  /\ Lookup(StoreOf(blob), normalizeRepoUrl(last.url)).userId = "u1"
  /\ Age(Lookup(StoreOf(blob), normalizeRepoUrl(last.url)), now) = 0

(* the entry at the key of the get, before the get *)
Asked == Lookup(StoreOf(blob), normalizeRepoUrl(last'.url))

AskedExpired ==
  /\ Did("get")
  /\ HasKey(StoreOf(blob), normalizeRepoUrl(last'.url))
  /\ Age(Asked, now) > CACHE_EXPIRATION

(* C4 (as stated): a get by any user on a key whose entry is older than    *)
(* the window misses and leaves the store without that entry.              *)
C4_ExpiryAnyUser ==
  [][AskedExpired =>
       /\ last'.ret = MISS
       /\ ~HasKey(StoreOf(blob'), normalizeRepoUrl(last'.url))]_vars

(* C4 (amended): such a get always misses; the entry is gone afterwards    *)
(* when the get is made with the entry's own user id (or with no user for  *)
(* an "anonymous" entry), and stays in the store otherwise.                *)
C4_ExpiryByOwner ==
  [][AskedExpired =>
       /\ last'.ret = MISS
       /\ Asked.userId = Effective(last'.userId)
            => ~HasKey(StoreOf(blob'), normalizeRepoUrl(last'.url))
       /\ Asked.userId # Effective(last'.userId) => blob' = blob]_vars

(* the owner's get evicted an expired entry: another, fresh entry is all   *)
(* the store holds afterwards                                              *)
C4_Witness ==
  /\ last.op = "get"
  /\ last.ret = MISS
  /\ last.saved
  /\ now = 2 * (CACHE_EXPIRATION - 1)
  /\ lastPut[normalizeRepoUrl(last.url)] # NONE
  /\ ~HasKey(StoreOf(blob), normalizeRepoUrl(last.url))
  /\ Len(StoreOf(blob)) = 1

(* the key a put or remove step addresses, and the stores around the step *)
Addressed == normalizeRepoUrl(last'.url)

Before == StoreOf(blob)

After == StoreOf(blob')

(* C6: after put(url, D2, uB) the entry at the normalized key is exactly   *)
(* {D2, now, uB or "anonymous"}, whatever was there; a get that follows    *)
(* within the window returns D2 to uB and misses for any other user.       *)
C6_PutOverwrites ==
  [][/\ Did("put") =>
          /\ HasKey(After, Addressed)
          /\ Lookup(After, Addressed) =
               [data |-> last'.data, timestamp |-> now,
                userId |-> Effective(last'.userId)]
          /\ Cardinality({i \in 1..Len(After) : After[i].key = Addressed}) = 1
     /\ (/\ DidAfter("put", "get")
         /\ normalizeRepoUrl(last'.url) = normalizeRepoUrl(last.url)
         /\ HasKey(Before, Addressed)
         /\ Age(Lookup(Before, Addressed), now) < CACHE_EXPIRATION)
        => last'.ret = IF last'.userId = last.userId THEN last.data ELSE MISS]_vars

(* u2 has just overwritten, with D2, a key that held an older entry: the   *)
(* store holds u2's entry, stamped later than the first put in the store   *)
C6_Witness ==
  /\ last.op = "put"
  /\ last.userId = "u2"
  /\ last.data = "D2"
  /\ now = CACHE_EXPIRATION
  /\ Len(StoreOf(blob)) = 2
  /\ StoreOf(blob)[1].key = normalizeRepoUrl(last.url)
  /\ StoreOf(blob)[1].value =
       [data |-> "D2", timestamp |-> CACHE_EXPIRATION, userId |-> "u2"]
  /\ StoreOf(blob)[2].value.timestamp = 1

(* C7 (as stated): no cache operation lets a storage or (de)serialization  *)
(* failure, or a malformed stored value, reach its caller; a failed read   *)
(* behaves as an empty store and a failed write leaves the blob as it was. *)
C7_FailuresNeverReachCaller ==
  /\ ~last.raised
  /\ (last.op = "get" /\ fault = "unavailable") => last.ret = MISS

(* C8 (as stated): sweepExpired removes exactly the entries whose age      *)
(* exceeds the window and leaves the others unchanged.                     *)
C8_SweepRemovesOlderThanWindow ==
  [][Did("sweepExpired") =>
       /\ Keys(After) = {k \in Keys(Before) :
                           ~(Age(Lookup(Before, k), now) > CACHE_EXPIRATION)}
       /\ \A k \in Keys(After) : Lookup(After, k) = Lookup(Before, k)]_vars

(* C8 (amended): sweepExpired removes exactly the entries whose age is at  *)
(* least the window (now - timestamp >= 3,600,000 ms), whatever their      *)
(* userId, and leaves every other entry unchanged.                         *)
C8_SweepRemovesExpired ==
  [][Did("sweepExpired") =>
       /\ Keys(After) = {k \in Keys(Before) :
                           ~(Age(Lookup(Before, k), now) >= CACHE_EXPIRATION)}
       /\ \A k \in Keys(After) : Lookup(After, k) = Lookup(Before, k)
       /\ Len(After) = Cardinality(Keys(After))]_vars

(* a sweep removed one entry and kept a signed-in user's entry of age      *)
(* 3,599,999 ms                                                            *)
C8_Witness ==
  /\ last.op = "sweepExpired"
  /\ last.removed = 1
  /\ Len(StoreOf(blob)) = 1
  /\ StoreOf(blob)[1].value.userId = "u1"
  /\ Age(StoreOf(blob)[1].value, now) = CACHE_EXPIRATION - 1

(* the entry a put has just written: nothing happened since, no time passed *)
JustPut ==
  /\ last.op = "put"
  /\ HasKey(Before, normalizeRepoUrl(last.url))
  /\ Lookup(Before, normalizeRepoUrl(last.url)).timestamp = now

(* C9 (as stated): sweepExpired returns the number of entries it removed   *)
(* and does not write when that is 0; a sweep right after a put returns 0  *)
(* and the entry is still returned by get.                                 *)
C9_SweepAfterPutReturnsZero ==
  [][/\ Did("sweepExpired") =>
          /\ last'.removed = Len(Before) - Len(After)
          /\ last'.removed = 0 => (~last'.saved /\ blob' = blob)
     /\ (Did("sweepExpired") /\ JustPut) =>
          /\ last'.removed = 0
          /\ getFromCache(blob', fault', now', last.url, last.userId).ret
               = last.data]_vars

(* C9 (amended): as stated, except that a sweep right after a put returns  *)
(* the number of other entries that had expired (0 when there is none); it *)
(* never removes the entry just put, which get(url, u) still returns.      *)
C9_SweepCount ==
  [][/\ Did("sweepExpired") =>
          /\ last'.removed = Len(Before) - Len(After)
          /\ last'.removed = 0 => (~last'.saved /\ blob' = blob)
     /\ (Did("sweepExpired") /\ JustPut) =>
          /\ last'.removed =
               Cardinality({k \in Keys(Before) :
                              Age(Lookup(Before, k), now) >= CACHE_EXPIRATION})
          /\ HasKey(After, normalizeRepoUrl(last.url))
          /\ Lookup(After, normalizeRepoUrl(last.url))
               = Lookup(Before, normalizeRepoUrl(last.url))
          /\ getFromCache(blob', fault', now', last.url, last.userId).ret
               = last.data]_vars

(* a sweep that found nothing to remove in a store of two entries *)
C9_Witness ==
  /\ last.op = "sweepExpired"
  /\ last.removed = 0
  /\ ~last.saved
  /\ Len(StoreOf(blob)) = 2
  /\ \E i \in 1..2 : StoreOf(blob)[i].value.timestamp = now

(* C10: remove(repoUrl) deletes the entry at the normalized key, whoever   *)
(* owns it and expired or not, and changes no other entry; the store is    *)
(* untouched when there is no such entry; get on that key then misses for  *)
(* every user until the next put on that key.                              *)
C10_Remove ==
  [][/\ Did("remove") =>
          /\ Keys(After) = Keys(Before) \ {Addressed}
          /\ \A k \in Keys(After) : Lookup(After, k) = Lookup(Before, k)
          /\ ~HasKey(Before, Addressed) => (blob' = blob /\ ~last'.saved)
          /\ \A u \in UserIds :
               getFromCache(blob', fault', now', last'.url, u).ret = MISS
     /\ \A k \in NormKeys :
          (/\ ~HasKey(Before, k)
           /\ ~(Did("put") /\ Addressed = k)) => ~HasKey(After, k)
     /\ (Did("get") /\ ~HasKey(Before, Addressed)) => last'.ret = MISS]_vars

(* a remove through the full-URL form deleted an entry and left the other  *)
(* repository's entry, an expired one of u2, in the store                  *)
C10_Witness ==
  /\ last.op = "remove"
  /\ last.saved
  /\ Len(last.url) > Len(Prefix)
  /\ Len(StoreOf(blob)) = 1
  /\ StoreOf(blob)[1].value.userId = "u2"
  /\ Age(StoreOf(blob)[1].value, now) >= CACHE_EXPIRATION
  /\ lastPut[normalizeRepoUrl(last.url)] # NONE

(* C11: immediately after clear the cache is empty: get misses for every   *)
(* URL and user, sweepExpired returns 0 and stats reports no entry,        *)
(* whatever the store held before.                                         *)
C11_ClearEmpties ==
  last.op = "clear" =>
    /\ ~last.raised
    /\ StoreOf(blob) = <<>>
    /\ \A url \in Urls, u \in UserIds :
         getFromCache(blob, fault, now, url, u).ret = MISS
    /\ cleanExpiredCache(blob, fault, now).removed = 0
    /\ getCacheStats(blob, fault, now).total = 0

(* a clear after both repositories were cached, one of them an hour ago *)
C11_Witness ==
  /\ last.op = "clear"
  /\ blob = Absent
  /\ now >= CACHE_EXPIRATION
  /\ \A k \in NormKeys : lastPut[k] # NONE

(* C12: clearForUser(userId) removes all and only the entries whose stored *)
(* userId equals the argument; every other entry, "anonymous" ones         *)
(* included unless the argument is "anonymous", keeps its data, timestamp  *)
(* and userId.                                                             *)
C12_ClearForUser ==
  [][Did("clearForUser") =>
       /\ Keys(After) =
            {k \in Keys(Before) : Lookup(Before, k).userId # last'.userId}
       /\ \A k \in Keys(After) : Lookup(After, k) = Lookup(Before, k)
       /\ Len(After) = Cardinality(Keys(After))
       /\ last'.userId # "anonymous" =>
            \A k \in Keys(Before) :
              Lookup(Before, k).userId = "anonymous" => HasKey(After, k)]_vars

(* clearForUser("u1") removed an entry and left an anonymous one *)
C12_Witness ==
  /\ last.op = "clearForUser"
  /\ last.userId = "u1"
  /\ last.removed = 1
  /\ Len(StoreOf(blob)) = 1
  /\ StoreOf(blob)[1].value.userId = "anonymous"

(* C13: stats never changes the store; totalEntries is the number of keys, *)
(* validEntries the number of entries younger than the window, and         *)
(* totalEntries = validEntries + expiredEntries.                           *)
C13_StatsReadOnly ==
  [][Did("stats") =>
       /\ blob' = blob
       /\ ~last'.saved
       /\ last'.total = Cardinality(Keys(Before))
       /\ last'.valid =
            Cardinality({k \in Keys(Before) :
                           Age(Lookup(Before, k), now) < CACHE_EXPIRATION})
       /\ last'.total = last'.valid + last'.expired]_vars

(* stats counted one valid and one expired entry, and both are still there *)
C13_Witness ==
  /\ last.op = "stats"
  /\ last.total = 2
  /\ last.valid = 1
  /\ last.expired = 1
  /\ Len(StoreOf(blob)) = 2

----------------------------------------------------------------------------
(* The directory tree of the analysis page                                 *)
(* (client/src/pages/RepoAnalysis/RepoAnalysis.tsx).                       *)
(*                                                                         *)
(* A DirectoryStructure is a JavaScript object: a sequence of              *)
(* [key, value] records in enumeration order, keys pairwise different.  A  *)
(* value is null, a string or a nested DirectoryStructure.  Keys and the   *)
(* strings the code inspects are sequences of one-character strings.       *)

(* entries of a structure, nested ones included *)
MaxEntries == 4

NullValue == [t |-> "null", s |-> <<>>, m |-> <<>>]
StringValue(str) == [t |-> "string", s |-> str, m |-> <<>>]
DictValue(m) == [t |-> "dict", s |-> <<>>, m |-> m]

(* value !== null && typeof value === "object" *)
isDict(value) == value.t = "dict"

endsWith(str, c) == Len(str) > 0 /\ str[Len(str)] = c

Marker == <<".", ".", ".">>

(* name of a file item built from a "..." entry whose value is null *)
NullName == <<NULL>>

Digits ==
  [d \in {"0", "1", "2", "3", "5"} |->
     CASE d = "0" -> 0 [] d = "1" -> 1 [] d = "2" -> 2 [] d = "3" -> 3
       [] d = "5" -> 5]

isDigit(c) == c \in DOMAIN Digits

(* str.match(/\d+/): the first maximal run of decimal digits, <<>> for no  *)
(* match                                                                   *)
RECURSIVE TakeDigits(_)
TakeDigits(str) ==
  IF str = <<>> \/ ~isDigit(Head(str)) THEN <<>>
  ELSE <<Head(str)>> \o TakeDigits(Tail(str))

(* str.match(/\d+/) that collects every digit of the string *)
RECURSIVE matchDigits_AllDigits(_)
matchDigits_AllDigits(str) ==
  IF str = <<>> THEN <<>>
  ELSE (IF isDigit(Head(str)) THEN <<Head(str)>> ELSE <<>>)
         \o matchDigits_AllDigits(Tail(str))

RECURSIVE matchDigits(_)
matchDigits(str) ==
  IF str = <<>> THEN <<>>
  ELSE IF isDigit(Head(str)) THEN TakeDigits(str)
  ELSE matchDigits(Tail(str))

(* parseInt(run, 10) of a run of decimal digits *)
RECURSIVE parseInt(_)
parseInt(run) ==
  IF run = <<>> THEN 0
  ELSE 10 * parseInt(SubSeq(run, 1, Len(run) - 1)) + Digits[run[Len(run)]]

RECURSIVE countFilesInStructure(_)
countFilesInStructure(structure) ==
  IF structure = <<>> THEN 0
  ELSE LET key == Head(structure).key
           value == Head(structure).value
           match == matchDigits(value.s)
           counted ==
             IF key = Marker
             THEN IF match # <<>> THEN parseInt(match) ELSE 0
             ELSE IF endsWith(key, "/") /\ isDict(value)
             THEN countFilesInStructure(value.m)
             ELSE IF ~endsWith(key, "/") THEN 1
             ELSE 0
       IN counted + countFilesInStructure(Tail(structure))

(* (value as string).match is a property access on null when the value of  *)
(* a "..." entry is null: a TypeError, at any depth the count descends to  *)
RECURSIVE countFilesRaises(_)
countFilesRaises(structure) ==
  \E i \in 1..Len(structure) :
    LET key == structure[i].key
        value == structure[i].value
    IN \/ key = Marker /\ value.t # "string"
       \/ key # Marker /\ endsWith(key, "/") /\ isDict(value)
            /\ countFilesRaises(value.m)

(* String.prototype.localeCompare in the default locale: primary weights   *)
(* (punctuation, digits, letters regardless of case) decide first, then    *)
(* case, lower before upper                                                *)
Collation ==
  <<".", "/", "+", "0", "1", "2", "3", "5",
    "a", "b", "d", "l", "m", "n", "u", "x">>

PrimaryWeight(c) ==
  CHOOSE i \in 1..Len(Collation) : Collation[i] = LowerChar(c)

CaseWeight(c) == IF c = LowerChar(c) THEN 0 ELSE 1

RECURSIVE CompareWeights(_, _)
CompareWeights(x, y) ==
  IF x = <<>> THEN (IF y = <<>> THEN 0 ELSE -1)
  ELSE IF y = <<>> THEN 1
  ELSE IF Head(x) < Head(y) THEN -1
  ELSE IF Head(x) > Head(y) THEN 1
  ELSE CompareWeights(Tail(x), Tail(y))

(* the argument of localeCompare is converted to a string: null reads "null" *)
NameText(name) == IF name = NullName THEN <<"n", "u", "l", "l">> ELSE name

localeCompare(a, b) ==
  LET x == NameText(a)
      y == NameText(b)
      primary == CompareWeights([i \in 1..Len(x) |-> PrimaryWeight(x[i])],
                                [i \in 1..Len(y) |-> PrimaryWeight(y[i])])
  IN IF primary # 0 THEN primary
     ELSE CompareWeights([i \in 1..Len(x) |-> CaseWeight(x[i])],
                         [i \in 1..Len(y) |-> CaseWeight(y[i])])

(* comparator that orders by name alone *)
compareItems_NamesOnly(a, b) == localeCompare(a.name, b.name)

(* the comparator given to items.sort *)
compareItems(a, b) ==
  IF a.type = "folder" /\ b.type # "folder" THEN -1
  ELSE IF a.type # "folder" /\ b.type = "folder" THEN 1
  ELSE localeCompare(a.name, b.name)

(* Array.prototype.sort is stable: an item goes after every item that does *)
(* not compare greater than it                                             *)
RECURSIVE InsertSorted(_, _)
InsertSorted(sorted, item) ==
  IF sorted = <<>> THEN <<item>>
  ELSE IF compareItems(item, Head(sorted)) < 0 THEN <<item>> \o sorted
  ELSE <<Head(sorted)>> \o InsertSorted(Tail(sorted), item)

RECURSIVE sort(_)
sort(items) ==
  IF items = <<>> THEN <<>>
  ELSE InsertSorted(sort(SubSeq(items, 1, Len(items) - 1)), items[Len(items)])

(* FileTreeItem: an optional property that is undefined or not set is      *)
(* recorded by its has... flag                                             *)
FileTreeItem(name, type, hasChildren, children, hasFileCount, fileCount) ==
  [name |-> name, type |-> type,
   hasChildren |-> hasChildren, children |-> children,
   hasFileCount |-> hasFileCount, fileCount |-> fileCount]

fileItem(name) == FileTreeItem(name, "file", FALSE, <<>>, FALSE, 0)

(* a folder key without a structure shown as a file *)
bareFolderItem_AsFile(name) == fileItem(name)

bareFolderItem(name) == FileTreeItem(name, "folder", FALSE, <<>>, FALSE, 0)

(* folder item that keeps an empty children list *)
folderItem_KeepsEmptyChildren(name, children, fileCount) ==
  FileTreeItem(name, "folder", TRUE, children, TRUE, fileCount)

(* children: children.length > 0 ? children : undefined *)
folderItem(name, children, fileCount) ==
  FileTreeItem(name, "folder", children # <<>>, children, TRUE, fileCount)

RECURSIVE convertDirectoryStructure(_)

(* the item pushed for one entry of the structure *)
itemFor(key, value) ==
  IF endsWith(key, "/")
  THEN IF isDict(value)
       THEN folderItem(key, convertDirectoryStructure(value.m),
                       countFilesInStructure(value.m))
       ELSE bareFolderItem(key)
  ELSE IF key = Marker
  THEN fileItem(IF value.t = "string" THEN value.s ELSE NullName)
  ELSE fileItem(key)

convertDirectoryStructure(structure) ==
  sort([i \in 1..Len(structure) |->
          itemFor(structure[i].key, structure[i].value)])

(* convertDirectoryStructure raises when the count of a nested structure   *)
(* raises, and when the comparator calls localeCompare on a null name.     *)
(* Which of two items the engine's sort passes first is its own choice:    *)
(* nullReceiver says that it passes the null-named one as the receiver.    *)
RECURSIVE convertRaises(_, _)
convertRaises(structure, nullReceiver) ==
  \/ \E i \in 1..Len(structure) :
       LET key == structure[i].key
           value == structure[i].value
       IN endsWith(key, "/") /\ isDict(value)
            /\ (convertRaises(value.m, nullReceiver) \/ countFilesRaises(value.m))
  \/ /\ nullReceiver
     /\ \E i \in 1..Len(structure) :
          structure[i].key = Marker /\ structure[i].value.t # "string"
     /\ Cardinality({i \in 1..Len(structure) :
                       ~endsWith(structure[i].key, "/")}) >= 2

----------------------------------------------------------------------------
(* Directory structures given to the converter *)

FileKeys == {<<"a">>, <<"B">>}
FolderKeys == {<<"b", "/">>, <<"D", "/">>}
MarkerTexts == {<<"+", "1", "5", "x", "3">>, <<"b">>}

Entry(key, value) == [key |-> key, value |-> value]

(* entries as the analysis produces them, and the folder values that the   *)
(* converter tolerates                                                     *)
Leaves ==
  {Entry(k, NullValue) : k \in FileKeys}
    \cup {Entry(Marker, StringValue(text)) : text \in MarkerTexts}
    \cup {Entry(k, v) : k \in FolderKeys, v \in {NullValue, StringValue(<<"x">>)}}

(* entries of the wrong type: a "..." entry without text, a file entry     *)
(* with one                                                                *)
MalformedLeaves ==
  {Entry(Marker, NullValue), Entry(<<"a">>, StringValue(<<"x">>))}

RECURSIVE Size(_)
Size(structure) ==
  IF structure = <<>> THEN 0
  ELSE 1 + Size(Head(structure).value.m) + Size(Tail(structure))

(* every structure of at most n entries, in every enumeration order *)
RECURSIVE Structures(_, _)
Structures(n, leaves) ==
  IF n = 0 THEN {<<>>}
  ELSE LET first ==
             leaves \cup {Entry(k, DictValue(m)) :
                            k \in FolderKeys, m \in Structures(n - 1, leaves)}
       IN {<<>>} \cup
          UNION {{<<e>> \o rest :
                    rest \in {r \in Structures(n - 1 - Size(e.value.m), leaves) :
                                ~HasKey(r, e.key)}} : e \in first}

Called(op, raised, items, count) ==
  [op |-> op, raised |-> raised, items |-> items, count |-> count]

CacheIdle == CacheInit
NormIdle == NormInit

TreeInit ==
  /\ CacheIdle
  /\ NormIdle
  /\ PageIdle
  /\ TabsIdle
  /\ AuthIdle
  /\ tree \in Structures(MaxEntries, Leaves)
  /\ treeOut = Called("given", FALSE, <<>>, 0)

MalformedTreeInit ==
  /\ CacheIdle
  /\ NormIdle
  /\ PageIdle
  /\ TabsIdle
  /\ AuthIdle
  /\ tree \in Structures(MaxEntries, Leaves \cup MalformedLeaves)
  /\ treeOut = Called("given", FALSE, <<>>, 0)

Convert ==
  /\ \E nullReceiver \in BOOLEAN :
       treeOut' = IF convertRaises(tree, nullReceiver)
                  THEN Called("convert", TRUE, <<>>, 0)
                  ELSE Called("convert", FALSE, convertDirectoryStructure(tree), 0)
  /\ UNCHANGED <<tree, nonTreeVars>>

CountFiles ==
  /\ treeOut' = IF countFilesRaises(tree)
                THEN Called("countFiles", TRUE, <<>>, 0)
                ELSE Called("countFiles", FALSE, <<>>, countFilesInStructure(tree))
  /\ UNCHANGED <<tree, nonTreeVars>>

TreeNext == Convert \/ CountFiles

SpecTree == TreeInit /\ [][TreeNext]_vars

SpecTreeMalformed == MalformedTreeInit /\ [][TreeNext]_vars

----------------------------------------------------------------------------
(* Claims about the directory tree *)

Converted == treeOut.op = "convert" /\ ~treeOut.raised
Counted == treeOut.op = "countFiles" /\ ~treeOut.raised

RECURSIVE SortedAtEveryDepth(_)
SortedAtEveryDepth(items) ==
  /\ \A i, j \in 1..Len(items) :
       i < j =>
         /\ ~(items[i].type = "file" /\ items[j].type = "folder")
         /\ items[i].type = items[j].type =>
              localeCompare(items[i].name, items[j].name) <= 0
  /\ \A i \in 1..Len(items) : SortedAtEveryDepth(items[i].children)

(* C14: in the sequence convert returns and in the children of every       *)
(* folder at every depth, folders precede files and, within the folders    *)
(* and within the files, names are non-decreasing in the comparison order, *)
(* whatever the enumeration order of the input.                            *)
C14_SortInvariant == Converted => SortedAtEveryDepth(treeOut.items)

(* the input lists a file before a folder at the top and inside a folder,  *)
(* and the output lists the folders first at both levels                   *)
C14_Witness ==
  /\ Converted
  /\ Len(tree) = 2
  /\ ~endsWith(tree[1].key, "/")
  /\ isDict(tree[2].value)
  /\ Len(tree[2].value.m) = 2
  /\ ~endsWith(tree[2].value.m[1].key, "/")
  /\ endsWith(tree[2].value.m[2].key, "/")
  /\ treeOut.items[1].type = "folder"
  /\ treeOut.items[1].children[1].type = "folder"
  /\ treeOut.items[1].children[2].type = "file"
  /\ treeOut.items[2].type = "file"

(* the value of the run of digits str[i..j] *)
RECURSIVE DecimalValue(_, _, _)
DecimalValue(str, i, j) ==
  IF i > j THEN 0
  ELSE Digits[str[i]] * 10 ^ (j - i) + DecimalValue(str, i + 1, j)

FirstDigitRun(str) ==
  IF \A h \in 1..Len(str) : ~isDigit(str[h]) THEN 0
  ELSE LET i == CHOOSE i \in 1..Len(str) :
                  isDigit(str[i]) /\ \A h \in 1..(i - 1) : ~isDigit(str[h])
           j == CHOOSE j \in i..Len(str) :
                  /\ \A h \in i..j : isDigit(str[h])
                  /\ j = Len(str) \/ ~isDigit(str[j + 1])
       IN DecimalValue(str, i, j)

RECURSIVE FilesIn(_)
ContributionOf(e) ==
  CASE e.key = Marker -> FirstDigitRun(e.value.s)
    [] e.key # Marker /\ ~endsWith(e.key, "/") -> 1
    [] endsWith(e.key, "/") /\ isDict(e.value) -> FilesIn(e.value.m)
    [] endsWith(e.key, "/") /\ ~isDict(e.value) -> 0

RECURSIVE SumOfContributions(_, _)
SumOfContributions(structure, n) ==
  IF n = 0 THEN 0
  ELSE SumOfContributions(structure, n - 1) + ContributionOf(structure[n])

FilesIn(structure) == SumOfContributions(structure, Len(structure))

(* C15: countFiles(structure) is the sum over the entries of: 1 for a file *)
(* key; the value of the first maximal run of decimal digits of the text   *)
(* under "...", 0 when it has no digit; countFiles of the value for a      *)
(* folder key whose value is a structure; 0 for a folder key whose value   *)
(* is null or not a structure.                                             *)
C15_CountFiles ==
  treeOut.op = "countFiles" =>
    ~treeOut.raised /\ treeOut.count = FilesIn(tree)

(* a file and a folder holding a file and the marker "+15x3": 17 files *)
C15_Witness ==
  /\ Counted
  /\ treeOut.count = 17
  /\ \E i \in 1..Len(tree) :
       /\ isDict(tree[i].value)
       /\ HasKey(tree[i].value.m, Marker)
       /\ Len(tree[i].value.m) = 2

RECURSIVE OneItemPerEntry(_, _)

(* the item that the entry e must give, by the form of its key and value *)
ShapedBy(e, item) ==
  CASE endsWith(e.key, "/") /\ isDict(e.value) ->
         /\ item.type = "folder"
         /\ item.name = e.key
         /\ item.hasFileCount
         /\ item.fileCount = countFilesInStructure(e.value.m)
         /\ OneItemPerEntry(e.value.m, item.children)
         /\ item.hasChildren <=> item.children # <<>>
    [] endsWith(e.key, "/") /\ ~isDict(e.value) ->
         /\ item.type = "folder"
         /\ item.name = e.key
         /\ ~item.hasChildren
         /\ ~item.hasFileCount
    [] e.key = Marker ->
         /\ item.type = "file"
         /\ item.name = e.value.s
         /\ ~item.hasChildren
         /\ ~item.hasFileCount
    [] OTHER ->
         /\ item.type = "file"
         /\ item.name = e.key
         /\ ~item.hasChildren
         /\ ~item.hasFileCount

OneItemPerEntry(structure, items) ==
  /\ Len(items) = Len(structure)
  /\ \E f \in Permutations(1..Len(structure)) :
       \A i \in 1..Len(structure) : ShapedBy(structure[i], items[f[i]])

(* C16: convert emits exactly one item per entry at each level: a folder   *)
(* with fileCount = countFiles(value) and children = convert(value),       *)
(* omitted when empty, for a key ending in "/" with a structure as value;  *)
(* a folder with neither for such a key with any other value; a file named *)
(* by the value for the key "..."; a file named by the key otherwise.      *)
(* File items carry neither children nor fileCount.                        *)
C16_ConvertShape ==
  treeOut.op = "convert" =>
    ~treeOut.raised /\ OneItemPerEntry(tree, treeOut.items)

(* one entry of each form: a folder with an empty structure, a folder with *)
(* null, the marker and a file                                             *)
C16_Witness ==
  /\ Converted
  /\ Len(treeOut.items) = 4
  /\ \E i \in 1..4 : isDict(tree[i].value) /\ tree[i].value.m = <<>>
  /\ treeOut.items[1].type = "folder"
  /\ treeOut.items[2].type = "folder"
  /\ treeOut.items[1].hasFileCount # treeOut.items[2].hasFileCount
  /\ \E i \in 3..4 : treeOut.items[i].name \in MarkerTexts
  /\ \E i \in 3..4 : treeOut.items[i].name \in FileKeys

(* C17: convert and countFiles never raise on malformed input (values that *)
(* are structures, null or strings in any position, a "..." entry whose    *)
(* value is null included).                                                *)
C17_NeverRaises == ~treeOut.raised

----------------------------------------------------------------------------
(* The load effect of the analysis page                                    *)
(* (client/src/pages/RepoAnalysis/RepoAnalysis.tsx, loadAnalysis).         *)
(*                                                                         *)
(* The page is opened without a "saved" parameter.  A response is a        *)
(* payload (status success), ERROR_RESPONSE (status "error") or THROWN     *)
(* (the request rejected).                                                 *)

(* analysis requests sent by one page *)
MaxRequests == 2

ERROR_RESPONSE == "error"
THROWN == "throw"
Responses == Payloads \cup {ERROR_RESPONSE, THROWN}
PageUsers == {"u1"}

AnalysisState(isLoading, data, error) ==
  [isLoading |-> isLoading, data |-> data, error |-> error]

PageStep(op, id, url, userId, result) ==
  [op |-> op, id |-> id, url |-> url, userId |-> userId, result |-> result]

(* handleSaveRepository is recreated when analysisState.data changes, and  *)
(* the load effect depends on it; data read from the cache or received     *)
(* from the network is a new object every time                             *)
DataChanged(before, after) == before # NONE \/ after # NONE

LoadInit ==
  /\ CacheIdle
  /\ NormIdle
  /\ TreeIdle
  /\ TabsIdle
  /\ AuthIdle
  /\ pageRepoUrl \in PageUrls \cup {DefaultRepoUrl}
  /\ user = NULL
  /\ analysisState = AnalysisState(TRUE, NONE, NONE)
  /\ effectPending = TRUE
  /\ mounted = FALSE
  /\ inflight = {}
  /\ nextId = 0
  /\ pageLast = PageStep("init", 0, <<>>, NULL, NONE)
  /\ fresher = [k \in PageKeys |-> [id |-> 0, data |-> NONE]]
  /\ shownFor = <<>>
  /\ isSaving = FALSE
  /\ saveTimers = 0
  /\ savesRunning = 0

(* handleSaveRepository goes on past its first line: the values are those *)
(* of the render that created the function                                 *)
CanSave == user # NULL /\ analysisState.data # NONE /\ ~isSaving

(* the second effect runs cleanExpiredCache once, after the first run of   *)
(* the load effect                                                         *)
AfterMountSweep(b) ==
  IF mounted THEN b ELSE cleanExpiredCache(b, fault, now).blob

(* loadAnalysis up to its await *)
LoadAnalysis ==
  /\ effectPending
  /\ IF pageRepoUrl = <<>> \/ pageRepoUrl = DefaultRepoUrl
     THEN /\ analysisState' = AnalysisState(FALSE, NONE, NONE)
          /\ blob' = AfterMountSweep(blob)
          /\ pageLast' = PageStep("default", 0, pageRepoUrl, user, NONE)
          /\ shownFor' = <<>>
          /\ UNCHANGED <<inflight, nextId>>
     ELSE \E cached \in {getFromCache(blob, fault, now,
                                      fullRepoUrl(pageRepoUrl), user)} :
          /\ blob' = AfterMountSweep(cached.blob)
          /\ IF cached.ret # MISS
             THEN /\ analysisState' = AnalysisState(FALSE, cached.ret, NONE)
                  /\ pageLast' = PageStep("hit", 0, fullRepoUrl(pageRepoUrl),
                                          user, cached.ret)
                  /\ shownFor' = fullRepoUrl(pageRepoUrl)
                  /\ UNCHANGED <<inflight, nextId>>
             ELSE /\ nextId < MaxRequests
                  /\ analysisState' = AnalysisState(TRUE, NONE, NONE)
                  /\ nextId' = nextId + 1
                  /\ shownFor' = <<>>
                  /\ inflight' = inflight \cup
                       {[id |-> nextId + 1, url |-> fullRepoUrl(pageRepoUrl),
                         userId |-> user,
                         canSave |-> CanSave]}
                  /\ pageLast' = PageStep("request", nextId + 1,
                                          fullRepoUrl(pageRepoUrl), user, NONE)
  /\ effectPending' = DataChanged(analysisState.data, analysisState'.data)
  /\ mounted' = TRUE
  /\ UNCHANGED <<pageRepoUrl, user, fresher, isSaving, saveTimers, savesRunning,
                 now, ticks, fault, last, lastPut, normVars, treeVars, authVars, tabVars>>

(* a response that is cached whatever its status *)
isSuccess_AnyStatus(result) == result # THROWN

(* result.status !== "error", of a request that returned *)
isSuccess(result) == result \in Payloads

(* loadAnalysis after its await: the response of request r has arrived *)
Respond(r, result) ==
  /\ r \in inflight
  /\ inflight' = inflight \ {r}
  /\ analysisState' =
       CASE result \in Payloads -> AnalysisState(FALSE, result, NONE)
         [] result = ERROR_RESPONSE ->
              AnalysisState(FALSE, result, "Erro na analise")
         [] result = THROWN ->
              AnalysisState(FALSE, NONE, "Erro ao analisar repositorio")
  /\ blob' = IF isSuccess(result)
             THEN saveToCache(blob, fault, now, r.url, result, r.userId).blob
             ELSE blob
  /\ effectPending' =
       (effectPending \/ DataChanged(analysisState.data, analysisState'.data))
  /\ pageLast' = PageStep("respond", r.id, r.url, r.userId, result)
  /\ fresher' =
       IF result \in Payloads /\ r.id > fresher[normalizeRepoUrl(r.url)].id
       THEN [fresher EXCEPT ![normalizeRepoUrl(r.url)] =
               [id |-> r.id, data |-> result]]
       ELSE fresher
  /\ shownFor' = IF result = THROWN THEN <<>> ELSE r.url
  /\ saveTimers' =
       IF r.userId # NULL /\ isSuccess(result) /\ r.canSave
       THEN saveTimers + 1
       ELSE saveTimers
  /\ UNCHANGED <<pageRepoUrl, user, mounted, nextId, isSaving, savesRunning,
                 now, ticks, fault, last, lastPut, normVars, treeVars, authVars, tabVars>>

(* the search parameter changes while the page is shown *)
Navigate(url) ==
  /\ url # pageRepoUrl
  /\ pageRepoUrl' = url
  /\ effectPending' = TRUE
  /\ UNCHANGED <<pageLast, user, analysisState, mounted, inflight, nextId, fresher,
                 shownFor, isSaving, saveTimers, savesRunning,
                 cacheVars, normVars, treeVars, authVars, tabVars>>

(* useAuth delivers a user, or none *)
SignIn(userId) ==
  /\ user = NULL
  /\ user' = userId
  /\ effectPending' = TRUE
  /\ UNCHANGED <<pageLast, pageRepoUrl, analysisState, mounted, inflight, nextId,
                 fresher, shownFor, isSaving, saveTimers, savesRunning,
                 cacheVars, normVars, treeVars, authVars, tabVars>>

SignOut ==
  /\ user # NULL
  /\ user' = NULL
  /\ effectPending' = TRUE
  /\ UNCHANGED <<pageLast, pageRepoUrl, analysisState, mounted, inflight, nextId,
                 fresher, shownFor, isSaving, saveTimers, savesRunning,
                 cacheVars, normVars, treeVars, authVars, tabVars>>

(* handleSaveRepository, called by a timer that loadAnalysis set (its      *)
(* function is the one of the render in which the effect ran: canSave) or  *)
(* by the save button (the function of the current render), up to its      *)
(* await.  A call that returns at the first line changes nothing.          *)
HandleSaveRepository(byTimer) ==
  /\ IF byTimer THEN saveTimers > 0 ELSE CanSave
  /\ saveTimers' = IF byTimer THEN saveTimers - 1 ELSE saveTimers
  /\ isSaving' = TRUE
  /\ savesRunning' = savesRunning + 1
  /\ effectPending' = (effectPending \/ ~isSaving)
  /\ UNCHANGED <<pageLast, pageRepoUrl, user, analysisState, mounted, inflight, nextId,
                 fresher, shownFor, cacheVars, normVars, treeVars, authVars, tabVars>>

(* handleSaveRepository after its await: finally setIsSaving(false) *)
SaveRepositoryDone ==
  /\ savesRunning > 0
  /\ savesRunning' = savesRunning - 1
  /\ isSaving' = FALSE
  /\ effectPending' = (effectPending \/ isSaving)
  /\ UNCHANGED <<pageLast, pageRepoUrl, user, analysisState, mounted, inflight, nextId,
                 fresher, shownFor, saveTimers, cacheVars, normVars, treeVars, authVars,
                 tabVars>>

LoadNext ==
  \/ LoadAnalysis
  \/ \E r \in inflight, result \in Responses : Respond(r, result)
  \/ \E url \in PageUrls \cup {DefaultRepoUrl} : Navigate(url)
  \/ \E userId \in PageUsers : SignIn(userId)
  \/ SignOut

SpecLoad == LoadInit /\ [][LoadNext]_vars

(* The page with its search parameter and its user fixed: the load effect, *)
(* the responses, and the saves, which set isSaving.                       *)
FixedInit ==
  /\ CacheIdle
  /\ NormIdle
  /\ TreeIdle
  /\ TabsIdle
  /\ AuthIdle
  /\ pageRepoUrl \in PageUrls \cup {DefaultRepoUrl}
  /\ user \in PageUsers \cup {NULL}
  /\ analysisState = AnalysisState(TRUE, NONE, NONE)
  /\ effectPending = TRUE
  /\ mounted = FALSE
  /\ inflight = {}
  /\ nextId = 0
  /\ pageLast = PageStep("init", 0, <<>>, NULL, NONE)
  /\ fresher = [k \in PageKeys |-> [id |-> 0, data |-> NONE]]
  /\ shownFor = <<>>
  /\ isSaving = FALSE
  /\ saveTimers = 0
  /\ savesRunning = 0

FixedNext ==
  \/ LoadAnalysis
  \/ \E r \in inflight, result \in Responses : Respond(r, result)
  \/ \E byTimer \in BOOLEAN : HandleSaveRepository(byTimer)
  \/ SaveRepositoryDone

SpecFixed == FixedInit /\ [][FixedNext]_vars

----------------------------------------------------------------------------
(* Claims about the load effect *)

(* a step in which the response of a request arrives *)
Responded == pageLast' # pageLast /\ pageLast'.op = "respond"

(* C19: with several analysis requests in flight and no cancellation, a    *)
(* response, whenever it arrives, writes the cache only under the          *)
(* normalized key of its own request URL and changes the entry of no other *)
(* key; the entry it leaves is its own, also when a newer request for the  *)
(* same key was answered before it.                                        *)
C19_ResponseWritesOwnKey ==
  [][Responded =>
       LET key == normalizeRepoUrl(pageLast'.url) IN
       /\ \A k \in (Keys(Before) \cup Keys(After)) \ {key} :
            /\ HasKey(Before, k)
            /\ HasKey(After, k)
            /\ Lookup(After, k) = Lookup(Before, k)
       /\ pageLast'.result \in Payloads =>
            /\ HasKey(After, key)
            /\ Lookup(After, key) =
                 CacheEntry(pageLast'.result, now, Effective(pageLast'.userId))]_vars

(* the older of two requests for one key was answered last, with another  *)
(* payload, after the page had moved to another repository: the cache      *)
(* holds the older request's payload                                       *)
C19_Witness ==
  /\ pageLast.op = "respond"
  /\ pageLast.result \in Payloads
  /\ pageLast.id < fresher[normalizeRepoUrl(pageLast.url)].id
  /\ fresher[normalizeRepoUrl(pageLast.url)].data # pageLast.result
  /\ inflight = {}
  /\ Lookup(StoreOf(blob), normalizeRepoUrl(pageLast.url)).data = pageLast.result
  /\ normalizeRepoUrl(fullRepoUrl(pageRepoUrl)) # normalizeRepoUrl(pageLast.url)

----------------------------------------------------------------------------
(* Two tabs of one browser share localStorage.  A tab runs its own code to *)
(* completion, so nothing else of that tab happens inside its saveToCache; *)
(* another tab runs at the same time, and its accesses to localStorage may *)
(* fall between this tab's getItem (in getCacheStore) and setItem (in      *)
(* saveCacheStore).                                                        *)

TabUrls == {a_b, Prefix \o c_d}

TabJob(url, data, userId) == [url |-> url, data |-> data, userId |-> userId]

(* saveToCache up to and including getCacheStore() *)
TabRead(t, url, data, userId) ==
  /\ tabPc[t] = "idle"
  /\ tabPc' = [tabPc EXCEPT ![t] = "read"]
  /\ tabJob' = [tabJob EXCEPT ![t] = TabJob(url, data, userId)]
  /\ tabHeld' = [tabHeld EXCEPT ![t] =
                   [text |-> blob, store |-> getCacheStore(blob, fault).obj]]
  /\ UNCHANGED <<tabDone, overlapped, cacheVars, normVars, treeVars, authVars, pageVars>>

(* the rest of saveToCache: store[normalizedUrl] = ...; saveCacheStore(store) *)
TabWrite(t) ==
  /\ tabPc[t] = "read"
  /\ blob' = saveCacheStore(blob, fault,
               Assign(tabHeld[t].store, normalizeRepoUrl(tabJob[t].url),
                      CacheEntry(tabJob[t].data, now,
                                 OrAnonymous(tabJob[t].userId))))
  /\ tabPc' = [tabPc EXCEPT ![t] = "idle"]
  /\ tabJob' = [tabJob EXCEPT ![t] = NONE]
  /\ tabHeld' = [tabHeld EXCEPT ![t] = NONE]
  /\ tabDone' = [tabDone EXCEPT ![t] = @ \cup {normalizeRepoUrl(tabJob[t].url)}]
  /\ overlapped' = (overlapped \/ blob # tabHeld[t].text)
  /\ UNCHANGED <<now, ticks, fault, last, lastPut, normVars, treeVars, authVars, pageVars>>

TabsInit ==
  CacheInit /\ NormIdle /\ TreeIdle /\ PageIdle /\ TabsIdle /\ AuthIdle

TabsNext ==
  \E t \in Tabs :
    \/ \E url \in TabUrls, data \in Payloads : TabRead(t, url, data, NULL)
    \/ TabWrite(t)

SpecTabs == TabsInit /\ [][TabsNext]_vars

(* a key whose saveToCache completed in some tab and that the store lacks *)
LostUpdate ==
  \E t \in Tabs : \E k \in tabDone[t] : ~HasKey(StoreOf(blob), k)

(* C20: a saveToCache is a read-modify-write of the whole store.  While    *)
(* the writes of the tabs do not fall between another tab's read and       *)
(* write, every completed put is in the store; an entry is lost only when  *)
(* they do, and then it can be: two puts to different keys, both           *)
(* completed, leave one entry.                                             *)
C20_LostUpdateOnlyAcrossTabs == LostUpdate => overlapped

(* each tab completed one put, to different keys, and the store holds one  *)
(* of the two entries                                                      *)
C20_Witness ==
  /\ \A t \in Tabs : tabPc[t] = "idle" /\ Cardinality(tabDone[t]) = 1
  /\ tabDone[1] # tabDone[2]
  /\ Len(StoreOf(blob)) = 1
  /\ LostUpdate

----------------------------------------------------------------------------
(* More claims about the load effect *)

(* the page shows a real repository *)
RealUrl == pageRepoUrl # <<>> /\ pageRepoUrl # DefaultRepoUrl

PageKey == normalizeRepoUrl(fullRepoUrl(pageRepoUrl))

(* the store holds an entry of the current user for the page's URL that is *)
(* younger than the window                                                 *)
CacheHolds ==
  /\ HasKey(Before, PageKey)
  /\ Lookup(Before, PageKey).userId = Effective(user)
  /\ Age(Lookup(Before, PageKey), now) < CACHE_EXPIRATION

(* C21: for a real repository URL the cache is consulted before the        *)
(* network: an analysis request is sent only from a state in which         *)
(* get(fullRepoUrl, user) misses, no request is sent while it would hit,   *)
(* and the run of the effect that hits shows the cached data.              *)
C21_CacheBeforeNetwork ==
  [][/\ nextId' # nextId => RealUrl /\ ~CacheHolds
     /\ RealUrl /\ CacheHolds => nextId' = nextId /\ inflight' \subseteq inflight
     /\ pageLast' # pageLast /\ pageLast'.op = "hit" =>
          /\ CacheHolds
          /\ analysisState' =
               AnalysisState(FALSE, Lookup(Before, PageKey).data, NONE)]_vars

(* the first load missed and sent the only request; after its response a   *)
(* run of the effect took the data from the cache                          *)
C21_Witness ==
  /\ pageLast.op = "hit"
  /\ nextId = 1
  /\ inflight = {}
  /\ ~analysisState.isLoading
  /\ analysisState.data = pageLast.result
  /\ analysisState.data \in Payloads

-----------------------------------------------------------------------------
(* More claims about the cache service                                     *)

(* the get was made by the owner of the entry at its key *)
AskedByOwner ==
  /\ Did("get")
  /\ HasKey(Before, Addressed)
  /\ Asked.userId = Effective(last'.userId)

(* C22: an entry is expired exactly when now - timestamp >= 3 600 000 ms:  *)
(* its owner's get returns the data at age 3 599 999 and misses and evicts *)
(* at age 3 600 000, and the owner's get misses at exactly the ages from   *)
(* 3 600 000 on, whichever entry, payload and user it is.                  *)
C22_ExpiryBoundary ==
  [][AskedByOwner =>
       /\ Age(Asked, now) = 3599999 => last'.ret = Asked.data /\ blob' = blob
       /\ Age(Asked, now) = 3600000 =>
            last'.ret = MISS /\ ~HasKey(After, Addressed)
       /\ last'.ret = MISS <=> Age(Asked, now) >= 3600000
       /\ last'.ret = MISS => ~HasKey(After, Addressed)]_vars

(* at time 3 600 000 the owner asked for an entry put at time 0: a miss,   *)
(* and the entry is gone                                                   *)
C22_Witness ==
  /\ last.op = "get"
  /\ last.ret = MISS
  /\ last.saved
  /\ now = 3600000
  /\ lastPut[normalizeRepoUrl(last.url)] # NONE
  /\ ~HasKey(StoreOf(blob), normalizeRepoUrl(last.url))

(* C23: get changes the store only by evicting the one expired entry its   *)
(* owner asked for; a hit, a miss on a key without an entry and a miss on  *)
(* another user's entry (expired or not) leave the whole store as it was,  *)
(* so a hit never refreshes the timestamp of the entry it returns.         *)
C23_GetFrame ==
  [][Did("get") =>
       /\ last'.ret # MISS => blob' = blob
       /\ ~HasKey(Before, Addressed) => blob' = blob
       /\ (HasKey(Before, Addressed) /\ Asked.userId # Effective(last'.userId))
            => blob' = blob
       /\ blob' # blob =>
            /\ AskedByOwner
            /\ Age(Asked, now) >= CACHE_EXPIRATION
            /\ Keys(After) = Keys(Before) \ {Addressed}
            /\ \A k \in Keys(After) : Lookup(After, k) = Lookup(Before, k)]_vars

(* a hit two ticks after the put: the entry still carries the time of the  *)
(* put                                                                     *)
C23_Witness ==
  /\ last.op = "get"
  /\ last.ret # MISS
  /\ now = 2
  /\ HasKey(StoreOf(blob), normalizeRepoUrl(last.url))
  /\ Lookup(StoreOf(blob), normalizeRepoUrl(last.url)).timestamp = 0
  /\ Lookup(StoreOf(blob), normalizeRepoUrl(last.url)).data = last.ret

(* C24 (as stated): normalizeKey(normalizeKey(u)) = normalizeKey(u) for    *)
(* every URL string u.                                                     *)
C24_Idempotent ==
  nRel = "key" => nKeyV = nKeyU

(* C24 (amended): the key of u is a fixed point of normalizeKey exactly    *)
(* when it neither ends in a slash nor contains https://github.com/; a key *)
(* such as "a/", which "a//" gives, normalizes further to "a".             *)
C24_IdempotentOnCleanKeys ==
  nRel = "key" =>
    (nKeyV = nKeyU <=> ~EndsWithSlash(nKeyU) /\ ~ContainsPrefix(nKeyU))

(* the key a/b of HTTPS://GITHUB.COM/a/B, used as a URL, gives a/b again *)
C24_Witness ==
  /\ nRel = "key"
  /\ nUrl = PrefixUpper \o <<"a", "/", "B">>
  /\ nVar = <<"a", "/", "b">>
  /\ nKeyU = <<"a", "/", "b">>
  /\ nKeyV = nKeyU

(* C25: signed-in and signed-out entries are kept apart: put stores the    *)
(* user id "anonymous" exactly when it is made with no user and the user's *)
(* id otherwise; a get made with no user returns only "anonymous" entries, *)
(* a get made with a user never returns one; and a get straight after a    *)
(* put on the same key misses when one of the two was made with a user and *)
(* the other without.                                                      *)
C25_AnonymousApart ==
  [][/\ Did("put") /\ HasKey(After, Addressed) =>
          /\ Lookup(After, Addressed).userId = "anonymous" <=> last'.userId = NULL
          /\ last'.userId # NULL => Lookup(After, Addressed).userId = last'.userId
     /\ Did("get") /\ last'.ret # MISS =>
          /\ HasKey(Before, Addressed)
          /\ Asked.userId = "anonymous" <=> last'.userId = NULL
     /\ (/\ DidAfter("put", "get")
         /\ normalizeRepoUrl(last'.url) = normalizeRepoUrl(last.url)
         /\ (last'.userId = NULL) # (last.userId = NULL)) => last'.ret = MISS]_vars

(* a signed-out visitor asks for a key that holds a fresh entry of u1, and *)
(* misses                                                                  *)
C25_Witness ==
  /\ last.op = "get"
  /\ last.userId = NULL
  /\ last.ret = MISS
  /\ HasKey(StoreOf(blob), normalizeRepoUrl(last.url))
  /\ Lookup(StoreOf(blob), normalizeRepoUrl(last.url)).userId = "u1"
  /\ Age(Lookup(StoreOf(blob), normalizeRepoUrl(last.url)), now) = 1

-----------------------------------------------------------------------------
(* More claims about the load effect, continued                            *)

(* C26: only successful analyses are cached: a response with status        *)
(* "error" and a request that throws leave the stored text as it was, the  *)
(* store never holds an error payload, and a run of the effect that hits   *)
(* the cache never shows one.                                              *)
C26_OnlySuccessCached ==
  [][/\ Responded /\ pageLast'.result \notin Payloads => blob' = blob
     /\ Responded /\ pageLast'.result \in Payloads =>
          Lookup(After, normalizeRepoUrl(pageLast'.url)).data = pageLast'.result
     /\ \A k \in Keys(After) : Lookup(After, k).data \in Payloads
     /\ pageLast' # pageLast /\ pageLast'.op = "hit" =>
          pageLast'.result \in Payloads]_vars

(* the second request was answered with status "error" for a repository    *)
(* that has no entry, while the store holds the entry of the first         *)
C26_Witness ==
  /\ pageLast.op = "respond"
  /\ pageLast.result = ERROR_RESPONSE
  /\ analysisState.data = ERROR_RESPONSE
  /\ nextId = 2
  /\ Keys(StoreOf(blob)) # {}
  /\ ~HasKey(StoreOf(blob), normalizeRepoUrl(pageLast.url))

(* C27 (as stated): a response to a request started for a repository the  *)
(* page no longer shows never replaces the analysis state of the current   *)
(* one.                                                                    *)
C27_StaleResponseIgnored ==
  [][Responded /\ normalizeRepoUrl(pageLast'.url) # PageKey =>
       analysisState' = analysisState]_vars

(* C28 (as stated): for a fixed repoUrl and a signed-in user the effect    *)
(* issues at most one backend analysis request.                            *)
C28_AtMostOneRequest ==
  user # NULL => nextId <= 1

-----------------------------------------------------------------------------
(* Sign-in (client/src/services/authService.ts and                         *)
(* client/src/contexts/AuthContext.tsx).  The backend issues one token per *)
(* account; GET /auth/me answers with the account of the token, or fails.  *)

Accounts == {"u1", "u2"}

TokenOf(account) == IF account = "u1" THEN "t1" ELSE "t2"

AccountOf(token) == IF token = "t1" THEN "u1" ELSE "u2"

AuthCall(op, from, token, account) ==
  [op |-> op, from |-> from, token |-> token, account |-> account]

(* the AuthProvider mounts (the application is loaded again): initAuth up  *)
(* to its await                                                            *)
InitAuth ==
  /\ authCall.op = "none"
  /\ IF nexo_token # NULL /\ nexo_user # NULL
     THEN /\ ctxToken' = nexo_token
          /\ ctxUser' = nexo_user
          /\ authCall' = AuthCall("me", "init", nexo_token, AccountOf(nexo_token))
     ELSE /\ ctxToken' = NULL
          /\ ctxUser' = NULL
          /\ authCall' = AuthCall("none", "none", NULL, NULL)
  /\ authLast' = "mount"
  /\ UNCHANGED <<nexo_token, nexo_user, cacheVars, normVars, treeVars, pageVars,
                 tabVars>>

(* login(credentials) up to its POST /auth/login *)
Login(account) ==
  /\ authCall.op = "none"
  /\ authCall' = AuthCall("post_login", "login", NULL, account)
  /\ UNCHANGED <<nexo_token, nexo_user, ctxToken, ctxUser, authLast, cacheVars,
                 normVars, treeVars, pageVars, tabVars>>

(* register(data) up to its POST /auth/register *)
Register(account) ==
  /\ authCall.op = "none"
  /\ authCall' = AuthCall("post_register", "register", NULL, account)
  /\ UNCHANGED <<nexo_token, nexo_user, ctxToken, ctxUser, authLast, cacheVars,
                 normVars, treeVars, pageVars, tabVars>>

(* POST /auth/register answers: on success register goes on to login *)
RegisterResponds(ok) ==
  /\ authCall.op = "post_register"
  /\ authCall' = IF ok THEN AuthCall("post_login", "register", NULL, authCall.account)
                 ELSE AuthCall("none", "none", NULL, NULL)
  /\ authLast' = IF ok THEN authLast ELSE "register failed"
  /\ UNCHANGED <<nexo_token, nexo_user, ctxToken, ctxUser, cacheVars, normVars,
                 treeVars, pageVars, tabVars>>

(* POST /auth/login answers: on success the token is stored and the user   *)
(* is asked for                                                            *)
LoginResponds(ok) ==
  /\ authCall.op = "post_login"
  /\ IF ok
     THEN /\ nexo_token' = TokenOf(authCall.account)
          /\ authCall' = AuthCall("me", authCall.from, TokenOf(authCall.account),
                                  authCall.account)
          /\ UNCHANGED authLast
     ELSE /\ authCall' = AuthCall("none", "none", NULL, NULL)
          /\ authLast' = authCall.from \o " failed"
          /\ UNCHANGED nexo_token
  /\ UNCHANGED <<nexo_user, ctxToken, ctxUser, cacheVars, normVars, treeVars,
                 pageVars, tabVars>>

(* getCurrentUser clears the stored sign-in only on an error whose message *)
(* contains "401"                                                          *)
clearsAuth(outcome) == outcome = "401"

(* GET /auth/me answers with the user ("ok"), with an error whose message  *)
(* contains "401", or with any other error (a network failure, an error    *)
(* body with its own detail text), and the caller of getCurrentUser goes    *)
(* on: login stores the user or rethrows; initAuth and refreshUser keep    *)
(* the fresh user or log out                                               *)
MeResponds(outcome) ==
  /\ authCall.op = "me"
  /\ authCall' = AuthCall("none", "none", NULL, NULL)
  /\ IF authCall.from \in {"login", "register"}
     THEN IF outcome = "ok"
          THEN /\ nexo_user' = authCall.account
               /\ ctxUser' = authCall.account
               /\ ctxToken' = authCall.token
               /\ authLast' = authCall.from \o " ok"
               /\ UNCHANGED nexo_token
          ELSE /\ nexo_token' = IF clearsAuth(outcome) THEN NULL ELSE nexo_token
               /\ nexo_user' = IF clearsAuth(outcome) THEN NULL ELSE nexo_user
               /\ authLast' = authCall.from \o " failed"
               /\ UNCHANGED <<ctxToken, ctxUser>>
     ELSE IF outcome = "ok"
          THEN /\ ctxUser' = authCall.account
               /\ authLast' = authCall.from \o " ok"
               /\ UNCHANGED <<nexo_token, nexo_user, ctxToken>>
          ELSE /\ nexo_token' = NULL
               /\ nexo_user' = NULL
               /\ ctxToken' = NULL
               /\ ctxUser' = NULL
               /\ authLast' = authCall.from \o " failed"
  /\ UNCHANGED <<cacheVars, normVars, treeVars, pageVars, tabVars>>

(* logout(), at any time *)
Logout ==
  /\ nexo_token' = NULL
  /\ nexo_user' = NULL
  /\ ctxToken' = NULL
  /\ ctxUser' = NULL
  /\ authLast' = "logout"
  /\ UNCHANGED <<authCall, cacheVars, normVars, treeVars, pageVars, tabVars>>

(* refreshUser() up to its await *)
RefreshUser ==
  /\ authCall.op = "none"
  /\ ctxToken # NULL
  /\ authCall' = AuthCall("me", "refresh", ctxToken, AccountOf(ctxToken))
  /\ UNCHANGED <<nexo_token, nexo_user, ctxToken, ctxUser, authLast, cacheVars,
                 normVars, treeVars, pageVars, tabVars>>

AuthNext ==
  \/ InitAuth
  \/ \E account \in Accounts : Login(account)
  \/ \E account \in Accounts : Register(account)
  \/ \E ok \in BOOLEAN : RegisterResponds(ok)
  \/ \E ok \in BOOLEAN : LoginResponds(ok)
  \/ \E outcome \in {"ok", "401", "other"} : MeResponds(outcome)
  \/ Logout
  \/ RefreshUser

SpecAuth == Init /\ [][AuthNext]_vars

(* C29 (as stated): whenever no auth call is in flight, the token item is  *)
(* present in local storage if and only if the user-profile item is.       *)
C29_TokenIffUser ==
  authCall.op = "none" => (nexo_token # NULL <=> nexo_user # NULL)

-----------------------------------------------------------------------------
(* The two traversals of a directory structure                             *)

(* the file-typed items reachable through a list of items *)
RECURSIVE FileItemsIn(_)
FileItemsIn(items) ==
  IF items = <<>> THEN 0
  ELSE (IF Head(items).type = "file" THEN 1 ELSE FileItemsIn(Head(items).children))
       + FileItemsIn(Tail(items))

(* the "..." keys of a structure, at any depth *)
RECURSIVE MarkersIn(_)
MarkersIn(structure) ==
  IF structure = <<>> THEN 0
  ELSE LET e == Head(structure)
       IN (CASE e.key = Marker -> 1
             [] endsWith(e.key, "/") /\ isDict(e.value) -> MarkersIn(e.value.m)
             [] OTHER -> 0)
          + MarkersIn(Tail(structure))

(* the sum of the integers parsed from the texts under those keys *)
RECURSIVE MarkerSum(_)
MarkerSum(structure) ==
  IF structure = <<>> THEN 0
  ELSE LET e == Head(structure)
       IN (CASE e.key = Marker -> FirstDigitRun(e.value.s)
             [] endsWith(e.key, "/") /\ isDict(e.value) -> MarkerSum(e.value.m)
             [] OTHER -> 0)
          + MarkerSum(Tail(structure))

(* every folder item made from a structure carries the count that its own  *)
(* children give, at every depth                                           *)
RECURSIVE CountsAgree(_, _)
CountsAgree(structure, items) ==
  \A i \in 1..Len(structure) :
    LET e == structure[i] IN
    (endsWith(e.key, "/") /\ isDict(e.value)) =>
      \E j \in 1..Len(items) :
        /\ items[j].name = e.key
        /\ items[j].type = "folder"
        /\ items[j].hasFileCount
        /\ items[j].fileCount =
             FileItemsIn(items[j].children) - MarkersIn(e.value.m)
               + MarkerSum(e.value.m)
        /\ MarkersIn(e.value.m) = 0 =>
             items[j].fileCount = FileItemsIn(items[j].children)
        /\ ~items[j].hasChildren => items[j].fileCount = 0
        /\ CountsAgree(e.value.m, items[j].children)

(* C30: the fileCount of every folder item that convert makes from a       *)
(* structure is the number of file-typed items reachable through its       *)
(* children (0 when children is omitted) when the structure has no "..."   *)
(* key at any depth, and otherwise that number minus the number of "..."   *)
(* items plus the sum of the integers parsed from their texts.             *)
C30_TraversalsAgree ==
  Converted => CountsAgree(tree, treeOut.items)

(* a folder holding a file and a folder whose only entry is the marker     *)
(* "+15x3": two file items below it, one of them the marker's, and a count *)
(* of 16                                                                   *)
C30_Witness ==
  /\ Converted
  /\ Len(treeOut.items) = 1
  /\ treeOut.items[1].fileCount = 16
  /\ FileItemsIn(treeOut.items[1].children) = 2
  /\ MarkersIn(tree) = 1
  /\ Len(treeOut.items[1].children) = 2
  /\ \E j \in 1..2 : treeOut.items[1].children[j].hasFileCount
                       /\ treeOut.items[1].children[j].fileCount = 15

====
